---- MODULE Spec2Model ----
(***************************************************************************)
(* Model of the volatility-regime pipeline of spy-volatility-regimes:      *)
(*   - load_data (streamlit_app.py): the retrying fetcher, as a state      *)
(*     machine over one call;                                              *)
(*   - classify_regimes / classify_volatility_regimes, the two region      *)
(*     scans (plot_regimes, plot_volatility_regimes) and the two summary   *)
(*     reporters (get_regime_stats, print_summary_statistics), as          *)
(*     operators applied to bounded inputs.                                *)
(* Time is counted in milliseconds (time.sleep(0.5) is 500).  Floats are   *)
(* modelled by exact integers and fractions.                               *)
(***************************************************************************)
EXTENDS Integers, Sequences, FiniteSets, TLC

VARIABLES
    \* ---- load_data -------------------------------------------------------
    max_retries,  \* the max_retries argument of the call
    attempt,      \* the loop variable of "for attempt in range(max_retries)"
    pc,           \* position of the call
    data,         \* number of rows of the frame the last request returned
    err,          \* str(e) of the exception being handled (<<>> when none)
    sleeps,       \* the time.sleep calls made so far, in order (ms)
    requests,     \* number of ticker_obj.history requests made so far
    notes,        \* the st.warning / st.error calls made so far, in order
    result,       \* the value returned by the call
    outcomes,     \* what each request did: "ok", "empty", "rate", "other"
    \* ---- pipeline stages ---------------------------------------------------
    stage,        \* position of the pipeline run
    volatility,   \* the volatility series handed to the classifier
    regimes,      \* the regime series handed to the scans and the summary
    regions,      \* vrects added by plot_regimes
    spans,        \* axvspans added by plot_volatility_regimes
    stats,        \* result of get_regime_stats
    printed,      \* what print_summary_statistics printed (or its error)
    price_dates,  \* the dates of prices.index handed to the scans
    failure,      \* the exception a stage raised ("none" when it returned)
    \* ---- the two main functions ------------------------------------------
    mainpc,       \* position of main
    prices,       \* the price series main got from the fetch
    returns,      \* the return series handed to compute_volatility
    window,       \* the window handed to compute_volatility
    calls         \* the stage functions main has called, in order

fetchVars == <<max_retries, attempt, pc, data, err, sleeps, requests, notes,
               result, outcomes>>
pipeVars  == <<stage, volatility, regimes, regions, spans, stats, printed,
               price_dates, failure>>
mainVars  == <<mainpc, prices, returns, window, calls>>
vars      == <<max_retries, attempt, pc, data, err, sleeps, requests, notes,
               result, outcomes,
               stage, volatility, regimes, regions, spans, stats, printed,
               price_dates, failure,
               mainpc, prices, returns, window, calls>>

-----------------------------------------------------------------------------
(* Bounds of the model *)

MaxAttempts == 3
MaxRows == 2
LongLen == 120

-----------------------------------------------------------------------------
(* Text helpers: a Python str is a sequence of one-character strings *)

Upper == <<"A","B","C","D","E","F","G","H","I","J","K","L","M",
           "N","O","P","Q","R","S","T","U","V","W","X","Y","Z">>
Lowercase == <<"a","b","c","d","e","f","g","h","i","j","k","l","m",
               "n","o","p","q","r","s","t","u","v","w","x","y","z">>

\* str.lower() on one character
LowerChar(c) ==
    IF \E i \in 1..Len(Upper) : Upper[i] = c
    THEN Lowercase[CHOOSE i \in 1..Len(Upper) : Upper[i] = c]
    ELSE c

\* str.lower()
Lower(s) == [i \in 1..Len(s) |-> LowerChar(s[i])]

\* the "in" operator on two strings: m is a substring of s
Contains(s, m) ==
    \E k \in 0..(Len(s) - Len(m)) : \A j \in 1..Len(m) : s[k + j] = m[j]

\* s[:n]
Slice(s, n) == SubSeq(s, 1, IF Len(s) < n THEN Len(s) ELSE n)

Pad(n) == [i \in 1..n |-> "x"]

MarkerRateLimit == <<"r","a","t","e"," ","l","i","m","i","t">>
MarkerTooMany == <<"t","o","o"," ","m","a","n","y"," ",
                   "r","e","q","u","e","s","t","s">>
Marker429 == <<"4","2","9">>
MarkerRateLimited == <<"r","a","t","e"," ","l","i","m","i","t","e","d">>

\* is_rate_limit, lines 64-73
IsRateLimit(e) ==
    \/ Contains(Lower(e), MarkerRateLimit)
    \/ Contains(Lower(e), MarkerTooMany)
    \/ Contains(e, Marker429)
    \/ Contains(Lower(e), MarkerRateLimited)

\* the error texts the provider raises in this model
ErrTimeout == <<"T","i","m","e","d"," ","o","u","t">>
ErrTooMany == <<"T","o","o"," ","M","a","n","y"," ",
                "R","e","q","u","e","s","t","s">>
Err429 == <<"H","T","T","P"," ","4","2","9">>
ErrLong == <<"E","r","r",":">> \o Pad(LongLen)
ErrLongRate == <<"R","A","T","E"," ","L","I","M","I","T",":">> \o Pad(LongLen)
ErrorTexts == {ErrTimeout, ErrTooMany, Err429, ErrLong, ErrLongRate}

-----------------------------------------------------------------------------
(* load_data, streamlit_app.py lines 24-109 *)

\* line 103: the slice bound of str(e)[:100]
ErrorDetailLen == 100
\* line 50: time.sleep(0.5), in ms
PolitenessDelay == 500
\* line 46: the factor 3 of (2 ** attempt) * 3, in ms
BackoffBase == 3000
\* line 77: the factor 5 of (2 ** attempt) * 5, in ms
RateLimitBase == 5000

None == [kind |-> "None"]
Series(rows) == [kind |-> "series", rows |-> rows]

\* the backoff of the first retry starting from the base (3s, 6s, ...)
PreAttemptDelayFromBase(a) ==
    IF a > 0 THEN (2 ^ (a - 1)) * BackoffBase ELSE PolitenessDelay

\* lines 45-50: the delay before the request of attempt a
PreAttemptDelay(a) == IF a > 0 THEN (2 ^ a) * BackoffBase ELSE PolitenessDelay

\* a backoff one step too long
RateLimitDelayDoubled(a) == (2 ^ (a + 1)) * RateLimitBase

\* line 77: the delay after a rate-limit error on attempt a
RateLimitDelay(a) == (2 ^ a) * RateLimitBase

\* line 79: the condition under which the retry warning is shown
ShowRetryWarning(a) == a = 0

\* line 81: st.warning(f"Rate limited. Retrying in {wait_time} seconds...")
RetryWarning(wait, raised) ==
    [level |-> "warning", msg |-> "rate_limit_retry", wait |-> wait,
     detail |-> <<>>, raised |-> raised]

\* the raw provider text echoed in the rate-limit message
RateLimitDetailEchoed(e) == Slice(e, ErrorDetailLen)

\* lines 89-93: the provider text (none) in the fixed rate-limit message
RateLimitDetail(e) == <<>>

\* lines 89-93: st.error("Yahoo Finance rate limit reached. ...")
RateLimitError(e, raised) ==
    [level |-> "error", msg |-> "rate_limit_reached", wait |-> 0,
     detail |-> RateLimitDetail(e), raised |-> raised]

\* line 103: str(e)[:100]
ErrorDetail(e) == Slice(e, ErrorDetailLen)

\* line 103: st.error(f"Error downloading data for {ticker}: {str(e)[:100]}")
DownloadError(e, raised) ==
    [level |-> "error", msg |-> "download_error", wait |-> 0,
     detail |-> ErrorDetail(e), raised |-> raised]

\* line 57 / line 76: attempts remain after attempt a
AttemptsRemain(a, m) == a < m - 1

\* the Close column returned without the data.empty test
ReturnValueUnchecked(rows) == Series(rows)

\* lines 55-61: the value returned for a frame of the given number of rows
\* on the final attempt (an empty frame gives None)
ReturnValue(rows) == IF rows = 0 THEN None ELSE Series(rows)

FetchInit ==
    /\ max_retries \in 0..MaxAttempts
    /\ attempt = 0
    /\ pc = "loop"
    /\ data = 0
    /\ err = <<>>
    /\ sleeps = <<>>
    /\ requests = 0
    /\ notes = <<>>
    /\ result = [kind |-> "running"]
    /\ outcomes = <<>>

\* the loop running one attempt too many
ForLoopOneMore ==
    /\ pc = "loop"
    /\ IF attempt <= max_retries
       THEN /\ pc' = "sleep"
            /\ UNCHANGED result
       ELSE /\ pc' = "done"
            /\ result' = None
    /\ UNCHANGED <<max_retries, attempt, data, err, sleeps, requests, notes,
                   outcomes>>
    /\ UNCHANGED pipeVars
    /\ UNCHANGED mainVars

\* line 42: the for statement; line 109 when the range is exhausted
ForLoop ==
    /\ pc = "loop"
    /\ IF attempt < max_retries
       THEN /\ pc' = "sleep"
            /\ UNCHANGED result
       ELSE /\ pc' = "done"
            /\ result' = None
    /\ UNCHANGED <<max_retries, attempt, data, err, sleeps, requests, notes,
                   outcomes>>
    /\ UNCHANGED pipeVars
    /\ UNCHANGED mainVars

\* lines 45-50
PreAttemptSleep ==
    /\ pc = "sleep"
    /\ sleeps' = Append(sleeps, PreAttemptDelay(attempt))
    /\ pc' = "request"
    /\ UNCHANGED <<max_retries, attempt, data, err, requests, notes, result,
                   outcomes>>
    /\ UNCHANGED pipeVars
    /\ UNCHANGED mainVars

\* lines 52-53, the provider returning a frame of rows rows
RequestReturns ==
    /\ pc = "request"
    /\ \E rows \in 0..MaxRows :
          /\ data' = rows
          /\ outcomes' = Append(outcomes, IF rows = 0 THEN "empty" ELSE "ok")
    /\ requests' = requests + 1
    /\ pc' = "check"
    /\ UNCHANGED <<max_retries, attempt, err, sleeps, notes, result>>
    /\ UNCHANGED pipeVars
    /\ UNCHANGED mainVars

\* lines 52-53 and 63-65, the provider raising an exception with text e
RequestRaises ==
    /\ pc = "request"
    /\ \E e \in ErrorTexts :
          /\ err' = e
          /\ outcomes' = Append(outcomes, IF IsRateLimit(e) THEN "rate" ELSE "other")
    /\ requests' = requests + 1
    /\ pc' = "except"
    /\ UNCHANGED <<max_retries, attempt, data, sleeps, notes, result>>
    /\ UNCHANGED pipeVars
    /\ UNCHANGED mainVars

\* lines 55-58: an empty frame with attempts remaining
EmptyRetry ==
    /\ pc = "check"
    /\ data = 0
    /\ AttemptsRemain(attempt, max_retries)
    /\ attempt' = attempt + 1
    /\ pc' = "loop"
    /\ UNCHANGED <<max_retries, data, err, sleeps, requests, notes, result,
                   outcomes>>
    /\ UNCHANGED pipeVars
    /\ UNCHANGED mainVars

\* lines 55-61: return None (empty frame, final attempt) or return data['Close']
ReturnData ==
    /\ pc = "check"
    /\ ~(data = 0 /\ AttemptsRemain(attempt, max_retries))
    /\ result' = ReturnValue(data)
    /\ pc' = "done"
    /\ UNCHANGED <<max_retries, attempt, data, err, sleeps, requests, notes,
                   outcomes>>
    /\ UNCHANGED pipeVars
    /\ UNCHANGED mainVars

\* a notifier call with no try/except around it
SwallowedNever(raised) == ~raised

\* lines 80-83, 88-95, 102-105: "try: st... except: pass"; whatever the
\* notifier raises is caught and discarded
Swallowed(raised) == TRUE

\* an exception leaving load_data
Propagate ==
    /\ pc' = "raised"
    /\ result' = [kind |-> "exception"]

\* lines 75-85: a rate-limit error with attempts remaining
RateLimitRetry ==
    /\ pc = "except"
    /\ IsRateLimit(err)
    /\ AttemptsRemain(attempt, max_retries)
    /\ LET Continue == /\ sleeps' = Append(sleeps, RateLimitDelay(attempt))
                       /\ attempt' = attempt + 1
                       /\ err' = <<>>
                       /\ pc' = "loop"
                       /\ UNCHANGED result
       IN IF ShowRetryWarning(attempt)
          THEN \E raised \in BOOLEAN :
                  /\ notes' = Append(notes, RetryWarning(RateLimitDelay(attempt), raised))
                  /\ IF Swallowed(raised)
                     THEN Continue
                     ELSE Propagate /\ UNCHANGED <<sleeps, attempt, err>>
          ELSE UNCHANGED notes /\ Continue
    /\ UNCHANGED <<max_retries, data, requests, outcomes>>
    /\ UNCHANGED pipeVars
    /\ UNCHANGED mainVars

\* lines 86-96: a rate-limit error on the final attempt
RateLimitExhausted ==
    /\ pc = "except"
    /\ IsRateLimit(err)
    /\ ~AttemptsRemain(attempt, max_retries)
    /\ \E raised \in BOOLEAN :
          /\ notes' = Append(notes, RateLimitError(err, raised))
          /\ IF Swallowed(raised)
             THEN result' = None /\ pc' = "done"
             ELSE Propagate
    /\ UNCHANGED <<max_retries, attempt, data, err, sleeps, requests, outcomes>>
    /\ UNCHANGED pipeVars
    /\ UNCHANGED mainVars

\* lines 99-107: another error on the final attempt
OtherErrorFinal ==
    /\ pc = "except"
    /\ ~IsRateLimit(err)
    /\ attempt = max_retries - 1
    /\ \E raised \in BOOLEAN :
          /\ notes' = Append(notes, DownloadError(err, raised))
          /\ IF Swallowed(raised)
             THEN result' = None /\ pc' = "done"
             ELSE Propagate
    /\ UNCHANGED <<max_retries, attempt, data, err, sleeps, requests, outcomes>>
    /\ UNCHANGED pipeVars
    /\ UNCHANGED mainVars

\* the error shown on every failed attempt, not only the final one
OtherErrorRetryShown ==
    /\ pc = "except"
    /\ ~IsRateLimit(err)
    /\ attempt # max_retries - 1
    /\ \E raised \in BOOLEAN : notes' = Append(notes, DownloadError(err, raised))
    /\ attempt' = attempt + 1
    /\ err' = <<>>
    /\ pc' = "loop"
    /\ UNCHANGED <<max_retries, data, sleeps, requests, result, outcomes>>
    /\ UNCHANGED pipeVars
    /\ UNCHANGED mainVars

\* lines 99 and 42: another error before the final attempt falls out of the
\* except block into the next iteration
OtherErrorRetry ==
    /\ pc = "except"
    /\ ~IsRateLimit(err)
    /\ attempt # max_retries - 1
    /\ attempt' = attempt + 1
    /\ err' = <<>>
    /\ pc' = "loop"
    /\ UNCHANGED <<max_retries, data, sleeps, requests, notes, result, outcomes>>
    /\ UNCHANGED pipeVars
    /\ UNCHANGED mainVars

-----------------------------------------------------------------------------
(* Series: a pandas Series over dates 0..n-1 is the sequence of its values. *)
(* A missing label is "NaN"; a missing volatility is NaN (-1, volatilities   *)
(* being >= 0).                                                              *)

MaxVolDays == 5
MaxVol == 3
MaxDays == 6

NaN == -1
Labels == {"Low", "Medium", "High"}
LabelOrder == <<"Low", "Medium", "High">>
Missing == "NaN"

\* pd.isna on a label
IsNa(x) == x = Missing

\* all sequences over S of length at most n
SeqsUpTo(S, n) == UNION {[1..k -> S] : k \in 0..n}

-----------------------------------------------------------------------------
(* classify_regimes, streamlit_app.py lines 150-172, and                    *)
(* classify_volatility_regimes, volatility_regimes.py lines 80-104          *)

\* the non-missing values of a series, in date order
DropNa(v) == SelectSeq(v, LAMBDA x : x # NaN)

RECURSIVE Insert(_, _)
Insert(s, x) ==
    IF s = <<>> THEN <<x>>
    ELSE IF x <= Head(s) THEN <<x>> \o s
    ELSE <<Head(s)>> \o Insert(Tail(s), x)

RECURSIVE Sorted(_)
Sorted(s) == IF s = <<>> THEN <<>> ELSE Insert(Sorted(Tail(s)), Head(s))

\* Series.quantile(q), q = q100 / 100, linear interpolation between the order
\* statistics of the non-missing values; NaN for a series without any.
\* The value is kept as 100 times the quantile, which is an integer.
Quantile(v, q100) ==
    LET s == Sorted(DropNa(v))
        n == Len(s)
        pos == (n - 1) * q100
        lo == (pos \div 100) + 1
        hi == IF lo < n THEN lo + 1 ELSE lo
    IN  IF n = 0 THEN [nan |-> TRUE, v100 |-> 0]
        ELSE [nan |-> FALSE,
              v100 |-> 100 * s[lo] + (pos % 100) * (s[hi] - s[lo])]

\* a comparison that lets the missing marker through
LeUnmasked(x, p) == ~p.nan /\ 100 * x <= p.v100

\* volatility <= p and volatility > p, elementwise; False on NaN
Le(x, p) == x # NaN /\ ~p.nan /\ 100 * x <= p.v100
Gt(x, p) == x # NaN /\ ~p.nan /\ 100 * x > p.v100

\* the Low mask with < in place of <=
LowMaskStrict(x, p33, p67) == x # NaN /\ ~p33.nan /\ 100 * x < p33.v100

\* the three masks of lines 168-170 (100-102)
LowMask(x, p33, p67) == Le(x, p33)
MediumMask(x, p33, p67) == Gt(x, p33) /\ Le(x, p67)
HighMask(x, p33, p67) == Gt(x, p67)

\* regimes[mask] = label
Assign(r, mask, label) == [i \in 1..Len(r) |-> IF mask[i] THEN label ELSE r[i]]

\* the body of both classifiers: thresholds computed once, then three masked
\* assignments in order on a series of missing labels
Classify(v) ==
    LET p33 == Quantile(v, 33)
        p67 == Quantile(v, 67)
        r0 == [i \in 1..Len(v) |-> Missing]
        r1 == Assign(r0, [i \in 1..Len(v) |-> LowMask(v[i], p33, p67)], "Low")
        r2 == Assign(r1, [i \in 1..Len(v) |-> MediumMask(v[i], p33, p67)], "Medium")
        r3 == Assign(r2, [i \in 1..Len(v) |-> HighMask(v[i], p33, p67)], "High")
    IN  r3

classify_regimes(v) == Classify(v)
classify_volatility_regimes(v) == Classify(v)

\* lines 150-172 (80-104): the exception the classifier raises on v; it has
\* no check of the number of observations and no raise statement
ClassifyFailure(v) == "none"

-----------------------------------------------------------------------------
(* compute_returns / compute_volatility, streamlit_app.py lines 112-147, and *)
(* compute_log_returns / compute_rolling_volatility, volatility_regimes.py   *)
(* lines 41-77.  A price is kept as its logarithm (an integer number of      *)
(* units), so that a log return is the exact difference of two of them.  A   *)
(* volatility is kept as w * sum(x^2) - sum(x)^2 over its window of w        *)
(* returns: the annualized volatility is sqrt(252 * that / (w * (w - 1))),   *)
(* which increases with it, and the labels of the classifier depend only on  *)
(* the order of the volatilities.                                            *)

MaxReturnDays == 4
MaxReturn == 1
MaxWindow == 3

\* np.log(prices / prices.shift(1)).dropna(): the first date has no
\* antecedent and is dropped
LogReturns(p) == [t \in 1..(Len(p) - 1) |-> p[t + 1] - p[t]]

compute_returns(p) == LogReturns(p)
compute_log_returns(p) == LogReturns(p)

RECURSIVE SumOver(_, _, _)
SumOver(x, from, to) == IF from > to THEN 0 ELSE x[from] + SumOver(x, from + 1, to)

\* the sample variance of x[t-w+1 .. t], times w * (w - 1)
WindowVariance(x, t, w) ==
    w * SumOver([i \in 1..Len(x) |-> x[i] * x[i]], t - w + 1, t)
      - SumOver(x, t - w + 1, t) * SumOver(x, t - w + 1, t)

\* returns.rolling(window=w).std() * np.sqrt(252): missing until w returns
\* are in the window, and missing everywhere for w = 1 (the sample standard
\* deviation of one value)
RollingVolatility(x, w) ==
    [t \in 1..Len(x) |-> IF w < 2 \/ t < w THEN NaN ELSE WindowVariance(x, t, w)]

compute_volatility(x, w) == RollingVolatility(x, w)
compute_rolling_volatility(x, w) == RollingVolatility(x, w)

\* lines 145-147 (75-77): the exception compute_volatility raises for a
\* window w >= 1; it has no check of the window and no raise statement
VolatilityFailure(w) == "none"

-----------------------------------------------------------------------------
(* the region scans: plot_regimes, streamlit_app.py lines 206-240, and       *)
(* plot_volatility_regimes, volatility_regimes.py lines 135-160.             *)
(* A region is <<label, x0, x1>>, x0 and x1 dates (positions in dates_list,  *)
(* from 0).                                                                  *)

NoRegime == "None"
NoDate == -1

\* lines 212-230 of plot_regimes from date i on
RECURSIVE ScanRegimes(_, _, _, _, _)
ScanRegimes(r, i, current_regime, start_date, out) ==
    IF i >= Len(r) THEN [current_regime |-> current_regime,
                         start_date |-> start_date, out |-> out]
    ELSE LET regime == r[i + 1] IN
         IF IsNa(regime) THEN ScanRegimes(r, i + 1, current_regime, start_date, out)
         ELSE IF regime # current_regime
         THEN ScanRegimes(r, i + 1, regime, i,
                  IF current_regime # NoRegime /\ start_date # NoDate
                  THEN Append(out, <<current_regime, start_date, i>>)
                  ELSE out)
         ELSE ScanRegimes(r, i + 1, current_regime, start_date, out)

\* lines 236: x1 of the final vrect, dates_list[-1]
FinalDate(r) == Len(r) - 1

\* lines 208-240: the vrects plot_regimes adds
plot_regimes(r) ==
    LET s == ScanRegimes(r, 0, NoRegime, NoDate, <<>>) IN
    IF s.current_regime # NoRegime /\ s.start_date # NoDate
    THEN Append(s.out, <<s.current_regime, s.start_date, FinalDate(r)>>)
    ELSE s.out

\* lines 140-154 of plot_volatility_regimes from date i on
RECURSIVE ScanSpans(_, _, _, _, _)
ScanSpans(r, i, current_regime, start_idx, out) ==
    IF i >= Len(r) THEN [current_regime |-> current_regime,
                         start_idx |-> start_idx, out |-> out]
    ELSE LET regime == r[i + 1] IN
         IF IsNa(regime) THEN ScanSpans(r, i + 1, current_regime, start_idx, out)
         ELSE IF regime # current_regime
         THEN ScanSpans(r, i + 1, regime, i,
                  IF current_regime # NoRegime /\ i > start_idx
                  THEN Append(out, <<current_regime, start_idx, i>>)
                  ELSE out)
         ELSE ScanSpans(r, i + 1, current_regime, start_idx, out)

\* the final span dropped when it starts on the last date
plot_volatility_regimes_short(r) ==
    LET s == ScanSpans(r, 0, NoRegime, 0, <<>>) IN
    IF s.current_regime # NoRegime /\ s.start_idx < Len(r) - 1
    THEN Append(s.out, <<s.current_regime, s.start_idx, Len(r) - 1>>)
    ELSE s.out

\* lines 136-160: the axvspans plot_volatility_regimes adds
plot_volatility_regimes(r) ==
    LET s == ScanSpans(r, 0, NoRegime, 0, <<>>) IN
    IF s.current_regime # NoRegime /\ s.start_idx < Len(r)
    THEN Append(s.out, <<s.current_regime, s.start_idx, Len(r) - 1>>)
    ELSE s.out

\* lines 192 and 208 (124 and 136): dates_list, the dates of regimes.index
\* (0 .. Len(r) - 1) that are also in prices.index, in order
CommonIndex(pd, r) == SelectSeq([i \in 1..Len(r) |-> i - 1], LAMBDA d : d \in pd)

\* lines 194 (126): regimes.loc[common_index]
Aligned(pd, r) ==
    [k \in 1..Len(CommonIndex(pd, r)) |-> r[CommonIndex(pd, r)[k] + 1]]

\* the regions of a scan with the dates their positions in dates_list stand for
Dated(out, dates_list) ==
    [k \in 1..Len(out) |->
        <<out[k][1], dates_list[out[k][2] + 1], dates_list[out[k][3] + 1]>>]

\* lines 191-240: the vrects of plot_regimes(prices, regimes), by date
PlotRegimesOn(pd, r) == Dated(plot_regimes(Aligned(pd, r)), CommonIndex(pd, r))

\* lines 123-160: the axvspans of plot_volatility_regimes(prices, regimes)
PlotVolatilityRegimesOn(pd, r) ==
    Dated(plot_volatility_regimes(Aligned(pd, r)), CommonIndex(pd, r))

-----------------------------------------------------------------------------
(* the summaries: get_regime_stats, streamlit_app.py lines 273-298, and      *)
(* print_summary_statistics, volatility_regimes.py lines 192-213.            *)
(* A percentage is the exact fraction num / den.                             *)

\* regimes.value_counts().get(regime, 0): NaN is not counted
ValueCount(r, regime) == Cardinality({i \in 1..Len(r) : r[i] = regime})

\* len(regimes)
TotalDays(r) == Len(r)

\* line 295: (count / total_days) * 100 if total_days > 0 else 0
Percentage(count, total_days) ==
    IF total_days > 0 THEN [num |-> count * 100, den |-> total_days]
    ELSE [num |-> 0, den |-> 1]

\* lines 287-298
get_regime_stats(r) ==
    [regime \in Labels |->
        [count |-> ValueCount(r, regime),
         percentage |-> Percentage(ValueCount(r, regime), TotalDays(r))]]

\* lines 205-211: the rows printed, or the ZeroDivisionError of line 210
print_summary_statistics(r) ==
    IF Len(r) = 0 THEN [error |-> "ZeroDivisionError", rows |-> <<>>]
    ELSE [error |-> "none",
          rows |-> [k \in 1..3 |->
                     [regime |-> LabelOrder[k],
                      count |-> ValueCount(r, LabelOrder[k]),
                      percentage |-> [num |-> ValueCount(r, LabelOrder[k]) * 100,
                                      den |-> Len(r)]]]]

-----------------------------------------------------------------------------
(* Applying the stages to bounded inputs *)

FetchIdle ==
    /\ max_retries = 0
    /\ attempt = 0
    /\ pc = "idle"
    /\ data = 0
    /\ err = <<>>
    /\ sleeps = <<>>
    /\ requests = 0
    /\ notes = <<>>
    /\ result = [kind |-> "idle"]
    /\ outcomes = <<>>

MainIdle ==
    /\ mainpc = "idle"
    /\ prices = [kind |-> "unset"]
    /\ returns = <<>>
    /\ window = 0
    /\ calls = <<>>

PipeIdle ==
    /\ stage = {}
    /\ volatility = <<>>
    /\ regimes = <<>>
    /\ regions = <<>>
    /\ spans = <<>>
    /\ stats = <<>>
    /\ printed = <<>>
    /\ price_dates = {}
    /\ failure = "none"

\* the classifiers on every volatility series of the bounds
ClassifyInit ==
    /\ FetchIdle
    /\ stage = {}
    /\ volatility \in SeqsUpTo({NaN} \cup 0..MaxVol, MaxVolDays)
    /\ regimes = <<>>
    /\ regions = <<>>
    /\ spans = <<>>
    /\ stats = <<>>
    /\ printed = <<>>
    /\ price_dates = {}
    /\ failure = "none"
    /\ MainIdle

ClassifyRegimes ==
    /\ stage = {}
    /\ regimes' = classify_regimes(volatility)
    /\ failure' = ClassifyFailure(volatility)
    /\ stage' = {"classify_regimes"}
    /\ UNCHANGED <<volatility, regions, spans, stats, printed, price_dates>>
    /\ UNCHANGED fetchVars
    /\ UNCHANGED <<mainpc, prices, returns, window, calls>>

ClassifyVolatilityRegimes ==
    /\ stage = {}
    /\ regimes' = classify_volatility_regimes(volatility)
    /\ failure' = ClassifyFailure(volatility)
    /\ stage' = {"classify_volatility_regimes"}
    /\ UNCHANGED <<volatility, regions, spans, stats, printed, price_dates>>
    /\ UNCHANGED fetchVars
    /\ UNCHANGED <<mainpc, prices, returns, window, calls>>

\* the scans and the summaries on every regime series of the bounds
RegimesInit ==
    /\ FetchIdle
    /\ stage = {}
    /\ volatility = <<>>
    /\ regimes \in SeqsUpTo(Labels \cup {Missing}, MaxDays)
    /\ regions = <<>>
    /\ spans = <<>>
    /\ stats = <<>>
    /\ printed = <<>>
    /\ price_dates = 0..(Len(regimes) - 1)
    /\ failure = "none"
    /\ MainIdle

MaxScanDays == 4

\* the scans on every regime series of the bounds and every price index
ScansInit ==
    /\ FetchIdle
    /\ stage = {}
    /\ volatility = <<>>
    /\ regimes \in SeqsUpTo(Labels \cup {Missing}, MaxScanDays)
    /\ regions = <<>>
    /\ spans = <<>>
    /\ stats = <<>>
    /\ printed = <<>>
    /\ price_dates \in SUBSET (0..(Len(regimes) - 1))
    /\ failure = "none"
    /\ MainIdle

PlotRegimes ==
    /\ "plot_regimes" \notin stage
    /\ regions' = PlotRegimesOn(price_dates, regimes)
    /\ stage' = stage \cup {"plot_regimes"}
    /\ UNCHANGED <<volatility, regimes, spans, stats, printed, price_dates, failure>>
    /\ UNCHANGED fetchVars
    /\ UNCHANGED <<mainpc, prices, returns, window, calls>>

PlotVolatilityRegimes ==
    /\ "plot_volatility_regimes" \notin stage
    /\ spans' = PlotVolatilityRegimesOn(price_dates, regimes)
    /\ stage' = stage \cup {"plot_volatility_regimes"}
    /\ UNCHANGED <<volatility, regimes, regions, stats, printed, price_dates, failure>>
    /\ UNCHANGED fetchVars
    /\ UNCHANGED <<mainpc, prices, returns, window, calls>>

GetRegimeStats ==
    /\ "get_regime_stats" \notin stage
    /\ stats' = get_regime_stats(regimes)
    /\ stage' = stage \cup {"get_regime_stats"}
    /\ UNCHANGED <<volatility, regimes, regions, spans, printed, price_dates, failure>>
    /\ UNCHANGED fetchVars
    /\ UNCHANGED <<mainpc, prices, returns, window, calls>>

PrintSummaryStatistics ==
    /\ "print_summary_statistics" \notin stage
    /\ printed' = print_summary_statistics(regimes)
    /\ stage' = stage \cup {"print_summary_statistics"}
    /\ UNCHANGED <<volatility, regimes, regions, spans, stats, price_dates, failure>>
    /\ UNCHANGED fetchVars
    /\ UNCHANGED <<mainpc, prices, returns, window, calls>>

\* compute_volatility on every return series and window of the bounds
VolatilityInit ==
    /\ FetchIdle
    /\ PipeIdle
    /\ mainpc = "idle"
    /\ prices = [kind |-> "unset"]
    /\ returns \in SeqsUpTo((0 - MaxReturn)..MaxReturn, MaxReturnDays)
    /\ window \in 1..MaxWindow
    /\ calls = <<>>

ComputeVolatility ==
    /\ stage = {}
    /\ volatility' = compute_volatility(returns, window)
    /\ failure' = VolatilityFailure(window)
    /\ stage' = {"compute_volatility"}
    /\ UNCHANGED <<regimes, regions, spans, stats, printed, price_dates>>
    /\ UNCHANGED fetchVars
    /\ UNCHANGED <<mainpc, prices, returns, window, calls>>

ComputeRollingVolatility ==
    /\ stage = {}
    /\ volatility' = compute_rolling_volatility(returns, window)
    /\ failure' = VolatilityFailure(window)
    /\ stage' = {"compute_rolling_volatility"}
    /\ UNCHANGED <<regimes, regions, spans, stats, printed, price_dates>>
    /\ UNCHANGED fetchVars
    /\ UNCHANGED <<mainpc, prices, returns, window, calls>>

-----------------------------------------------------------------------------
(* main of the dashboard, streamlit_app.py lines 302-411, and main of the     *)
(* script, volatility_regimes.py lines 216-234                                *)

MaxPrices == 4
MaxLogPrice == 2

\* volatility_regimes.py line 223: window=30
ScriptWindow == 30

\* the non-empty price series of the bounds
PriceSeries == SeqsUpTo(0..MaxLogPrice, MaxPrices) \ {<<>>}

NoPrices == [kind |-> "None"]
Prices(p) == [kind |-> "series", close |-> p]

MainInit ==
    /\ FetchIdle
    /\ PipeIdle
    /\ mainpc \in {"app", "script"}
    /\ prices = [kind |-> "unset"]
    /\ returns = <<>>
    /\ window = 0
    /\ calls = <<>>

\* streamlit_app.py line 341: "if ticker:" with the text input left empty
AppNoTicker ==
    /\ mainpc = "app"
    /\ mainpc' = "end"
    /\ UNCHANGED <<prices, returns, window, calls>>
    /\ UNCHANGED pipeVars
    /\ UNCHANGED fetchVars

\* streamlit_app.py lines 343-350: prices = load_data(ticker), which is None
\* or a non-empty series
AppLoadData ==
    /\ mainpc = "app"
    /\ prices' \in {NoPrices} \cup {Prices(p) : p \in PriceSeries}
    /\ calls' = Append(calls, "load_data")
    /\ mainpc' = "app_loaded"
    /\ UNCHANGED <<returns, window>>
    /\ UNCHANGED pipeVars
    /\ UNCHANGED fetchVars

\* streamlit_app.py lines 352-362: the fetch failed; st.error and return
AppFetchFailed ==
    /\ mainpc = "app_loaded"
    /\ prices = NoPrices
    /\ mainpc' = "end"
    /\ UNCHANGED <<prices, returns, window, calls>>
    /\ UNCHANGED pipeVars
    /\ UNCHANGED fetchVars

\* streamlit_app.py lines 352 and 364-411: the fetch succeeded, so the body
\* of the if is skipped; the statements from "Compute metrics" on are
\* indented into that body, after its return, and main ends here
AppFetchSucceeded ==
    /\ mainpc = "app_loaded"
    /\ prices # NoPrices
    /\ mainpc' = "end"
    /\ UNCHANGED <<prices, returns, window, calls>>
    /\ UNCHANGED pipeVars
    /\ UNCHANGED fetchVars

\* volatility_regimes.py lines 219 and 32-38: a non-empty frame
ScriptDownload ==
    /\ mainpc = "script"
    /\ prices' \in {Prices(p) : p \in PriceSeries}
    /\ calls' = Append(calls, "download_spy_data")
    /\ mainpc' = "returns"
    /\ UNCHANGED <<returns, window>>
    /\ UNCHANGED pipeVars
    /\ UNCHANGED fetchVars

\* volatility_regimes.py lines 219 and 35-36: an empty frame raises
\* ValueError, which leaves main
ScriptDownloadEmpty ==
    /\ mainpc = "script"
    /\ prices' = NoPrices
    /\ calls' = Append(calls, "download_spy_data")
    /\ failure' = "ValueError"
    /\ mainpc' = "crashed"
    /\ UNCHANGED <<returns, window>>
    /\ UNCHANGED <<stage, volatility, regimes, regions, spans, stats, printed,
                   price_dates>>
    /\ UNCHANGED fetchVars

\* volatility_regimes.py line 222
ScriptComputeLogReturns ==
    /\ mainpc = "returns"
    /\ returns' = compute_log_returns(prices.close)
    /\ calls' = Append(calls, "compute_log_returns")
    /\ mainpc' = "volatility"
    /\ UNCHANGED <<prices, window>>
    /\ UNCHANGED pipeVars
    /\ UNCHANGED fetchVars

\* volatility_regimes.py line 223
ScriptComputeRollingVolatility ==
    /\ mainpc = "volatility"
    /\ window' = ScriptWindow
    /\ volatility' = compute_rolling_volatility(returns, ScriptWindow)
    /\ calls' = Append(calls, "compute_rolling_volatility")
    /\ mainpc' = "classify"
    /\ UNCHANGED <<prices, returns>>
    /\ UNCHANGED <<stage, regimes, regions, spans, stats, printed, price_dates,
                   failure>>
    /\ UNCHANGED fetchVars

\* volatility_regimes.py line 226
ScriptClassify ==
    /\ mainpc = "classify"
    /\ regimes' = classify_volatility_regimes(volatility)
    /\ calls' = Append(calls, "classify_volatility_regimes")
    /\ mainpc' = "summary"
    /\ UNCHANGED <<prices, returns, window>>
    /\ UNCHANGED <<stage, volatility, regions, spans, stats, printed,
                   price_dates, failure>>
    /\ UNCHANGED fetchVars

\* volatility_regimes.py line 229; the ZeroDivisionError of line 210 leaves
\* main
ScriptPrintSummary ==
    /\ mainpc = "summary"
    /\ printed' = print_summary_statistics(regimes)
    /\ calls' = Append(calls, "print_summary_statistics")
    /\ IF print_summary_statistics(regimes).error = "none"
       THEN mainpc' = "plot" /\ UNCHANGED failure
       ELSE mainpc' = "crashed"
            /\ failure' = print_summary_statistics(regimes).error
    /\ UNCHANGED <<prices, returns, window>>
    /\ UNCHANGED <<stage, volatility, regimes, regions, spans, stats,
                   price_dates>>
    /\ UNCHANGED fetchVars

\* volatility_regimes.py lines 232-234; every date of regimes is a date of
\* prices
ScriptPlot ==
    /\ mainpc = "plot"
    /\ price_dates' = 0..(Len(regimes) - 1)
    /\ spans' = PlotVolatilityRegimesOn(0..(Len(regimes) - 1), regimes)
    /\ calls' = Append(calls, "plot_volatility_regimes")
    /\ mainpc' = "end"
    /\ UNCHANGED <<prices, returns, window>>
    /\ UNCHANGED <<stage, volatility, regimes, regions, stats, printed, failure>>
    /\ UNCHANGED fetchVars

-----------------------------------------------------------------------------
(* Specifications *)

Init == FetchInit /\ PipeIdle /\ MainIdle

Next ==
    \/ ForLoop
    \/ PreAttemptSleep
    \/ RequestReturns
    \/ RequestRaises
    \/ EmptyRetry
    \/ ReturnData
    \/ RateLimitRetry
    \/ RateLimitExhausted
    \/ OtherErrorFinal
    \/ OtherErrorRetry

\* one call of load_data
Spec == Init /\ [][Next]_vars

\* a call runs to its return: the interpreter always takes the next step
FairSpec == Init /\ [][Next]_vars /\ WF_vars(Next)

ClassifyNext ==
    \/ ClassifyRegimes
    \/ ClassifyVolatilityRegimes

\* the classifiers applied to a volatility series
SpecClassify == ClassifyInit /\ [][ClassifyNext]_vars

RegimesNext ==
    \/ PlotRegimes
    \/ PlotVolatilityRegimes
    \/ GetRegimeStats
    \/ PrintSummaryStatistics

\* the scans and the summaries applied to a regime series
SpecRegimes == RegimesInit /\ [][RegimesNext]_vars

VolatilityNext ==
    \/ ComputeVolatility
    \/ ComputeRollingVolatility

\* compute_volatility applied to a return series and a window
SpecVolatility == VolatilityInit /\ [][VolatilityNext]_vars

MainNext ==
    \/ AppNoTicker
    \/ AppLoadData
    \/ AppFetchFailed
    \/ AppFetchSucceeded
    \/ ScriptDownload
    \/ ScriptDownloadEmpty
    \/ ScriptComputeLogReturns
    \/ ScriptComputeRollingVolatility
    \/ ScriptClassify
    \/ ScriptPrintSummary
    \/ ScriptPlot

\* one run of either main
SpecMain == MainInit /\ [][MainNext]_vars

ScansNext ==
    \/ PlotRegimes
    \/ PlotVolatilityRegimes

\* the two scans applied to a price index and a regime series
SpecScans == ScansInit /\ [][ScansNext]_vars

-----------------------------------------------------------------------------
(* Claims about load_data *)

RECURSIVE Sum(_)
Sum(s) == IF s = <<>> THEN 0 ELSE Head(s) + Sum(Tail(s))

LastOutcome == IF outcomes = <<>> THEN "none" ELSE outcomes[Len(outcomes)]

\* a request has returned a non-empty frame
Succeeded == LastOutcome = "ok"

C1_Bounded ==
    /\ requests <= max_retries
    /\ Len(outcomes) = requests
    /\ \A i \in 1..Len(outcomes) : outcomes[i] = "ok" => i = Len(outcomes)

C1_Returned ==
    Succeeded => /\ pc \in {"check", "done"}
                 /\ pc = "done" => result = Series(data) /\ data > 0

C1_NothingAfterSuccess ==
    Succeeded => /\ requests' = requests
                 /\ sleeps' = sleeps
                 /\ notes' = notes
                 /\ pc' = "done"

\* C1: a call of load_data makes at most max_retries provider requests and
\* returns; once a request has returned a non-empty frame, the call returns
\* that series in its next step, with no further request, sleep or
\* notification.
C1_BoundedAndShortCircuit ==
    /\ [](C1_Bounded /\ C1_Returned)
    /\ [][C1_NothingAfterSuccess]_vars
    /\ <>(pc = "done")

C1_Witness ==
    /\ pc = "done"
    /\ max_retries = 3
    /\ outcomes = <<"other", "ok">>
    /\ result = Series(data)
    /\ requests = 2

\* the scenario of C2: three attempts allowed, rate-limit errors on attempts
\* 0 and 1, a non-empty frame on attempt 2
C2_Scenario ==
    /\ max_retries = 3
    /\ pc = "done"
    /\ outcomes = <<"rate", "rate", "ok">>

\* C2 as stated: in the scenario the total sleep is the politeness delay plus
\* the two rate-limit backoffs, nothing else.
C2_Original ==
    C2_Scenario =>
        Sum(sleeps) = PolitenessDelay + RateLimitBase * (2 ^ 0) + RateLimitBase * (2 ^ 1)

\* C2 (amended): in the scenario the total sleep is the politeness delay, plus
\* the two rate-limit backoffs, plus the pre-attempt backoffs before attempts
\* 1 and 2 (BackoffBase * 2^1 + BackoffBase * 2^2); these five sleeps are the
\* only ones.
C2_TotalSleep ==
    C2_Scenario =>
        /\ Len(sleeps) = 5
        /\ Sum(sleeps) = PolitenessDelay
                         + RateLimitBase * (2 ^ 0) + RateLimitBase * (2 ^ 1)
                         + BackoffBase * (2 ^ 1) + BackoffBase * (2 ^ 2)

C2_Witness == C2_Scenario /\ result.kind = "series"

Warnings == SelectSeq(notes, LAMBDA n : n.msg = "rate_limit_retry")

\* a rate-limited error of the finished call was retried: it was raised on an
\* attempt before the final one
RateLimitRetried ==
    \E i \in 1..Len(outcomes) : outcomes[i] = "rate" /\ i < max_retries

\* C3: when a call has ended, it has emitted exactly one rate-limit retry
\* advisory if a rate-limited error was retried (on whatever attempt), and
\* none otherwise; never more than one.
C3_OneAdvisoryPerCall ==
    /\ Len(Warnings) <= 1
    /\ pc = "done" => (Len(Warnings) = 1 <=> RateLimitRetried)

IsPrefix(d, e) == Len(d) <= Len(e) /\ \A i \in 1..Len(d) : d[i] = e[i]

C4_Step ==
    notes' # notes =>
        LET n == notes'[Len(notes')] IN
        /\ Len(notes') = Len(notes) + 1
        /\ IsRateLimit(err) => n.detail = <<>>
        /\ n.detail # <<>> => /\ ~IsRateLimit(err)
                              /\ attempt = max_retries - 1
                              /\ pc' = "done"
                              /\ IsPrefix(n.detail, err)
                              /\ Len(n.detail) <= 100

\* C4: a notification raised while handling a rate-limited error carries no
\* provider text; provider text is carried only by the notification for
\* another error on the final attempt, and is a prefix of at most 100
\* characters of the error text.
C4_NoProviderTextForRateLimit == [][C4_Step]_vars

C4_Witness ==
    /\ pc = "done"
    /\ \E i \in 1..Len(notes) :
          /\ notes[i].msg = "rate_limit_retry"
          /\ notes[i].detail = <<>>
    /\ notes[Len(notes)].msg = "rate_limit_reached"
    /\ Len(err) > 100
    /\ IsRateLimit(err)

\* C5: load_data returns None or a non-empty series, and returns None whenever
\* no request gave a non-empty frame.
C5_FailureValueOrNonEmptySeries ==
    /\ pc # "done" => result.kind = "running"
    /\ pc = "done" =>
          /\ result = None \/ (result.kind = "series" /\ result.rows > 0)
          /\ ~Succeeded => result = None

C5_Witness ==
    /\ pc = "done"
    /\ max_retries = 2
    /\ outcomes = <<"rate", "empty">>
    /\ result = None

-----------------------------------------------------------------------------
(* Claims about the region scans and the summaries (SpecRegimes) *)

\* the outputs of the scans that have run
Scanned ==
    (IF "plot_regimes" \in stage THEN {regions} ELSE {})
    \cup (IF "plot_volatility_regimes" \in stage THEN {spans} ELSE {})

\* the dates (from 0) a region <<label, x0, x1>> covers, x1 exclusive
Covered(reg) == reg[2]..(reg[3] - 1)

\* the label of date d (from 0)
LabelAt(d) == regimes[d + 1]

\* C6: no emitted region covers a date whose label is missing, and a
\* non-missing label that follows a missing one starts a region of its own.
C6_GapClosesRegion ==
    \A out \in Scanned :
        /\ \A k \in 1..Len(out) : \A d \in Covered(out[k]) : ~IsNa(LabelAt(d))
        /\ \A d \in 1..(Len(regimes) - 1) :
              (IsNa(LabelAt(d - 1)) /\ ~IsNa(LabelAt(d)))
                  => \E k \in 1..Len(out) : out[k][2] = d

\* the last date (from 0) with a non-missing label
LastLabelled ==
    CHOOSE d \in 0..(Len(regimes) - 1) :
        /\ ~IsNa(LabelAt(d))
        /\ \A e \in (d + 1)..(Len(regimes) - 1) : IsNa(LabelAt(e))

C7_Series == <<"Low", "Low", "Medium", "High", "High", "Medium">>
C7_Regions == <<<<"Low", 0, 2>>, <<"Medium", 2, 3>>, <<"High", 3, 5>>,
                <<"Medium", 5, 6>>>>

\* C7: no emitted region is of length zero, the last region ends one past the
\* last date sharing its label, and the scans give C7_Regions on C7_Series.
C7_NoEmptyRegionTerminalExtends ==
    \A out \in Scanned :
        /\ \A k \in 1..Len(out) : out[k][3] > out[k][2]
        /\ out # <<>> => out[Len(out)][3] = LastLabelled + 1
        /\ regimes = C7_Series => out = C7_Regions

RECURSIVE Repeat(_, _)
Repeat(x, n) == IF n <= 0 THEN <<>> ELSE <<x>> \o Repeat(x, n - 1)

\* each region's label once per date the region covers, in emission order
RECURSIVE Expand(_)
Expand(out) ==
    IF out = <<>> THEN <<>>
    ELSE Repeat(Head(out)[1], Head(out)[3] - Head(out)[2]) \o Expand(Tail(out))

NonMissing(r) == SelectSeq(r, LAMBDA x : ~IsNa(x))

\* C8: the regions expanded date by date give the non-missing labels of the
\* series, and no two consecutive regions share a label.
C8_LosslessPartition ==
    \A out \in Scanned :
        /\ Expand(out) = NonMissing(regimes)
        /\ \A k \in 1..(Len(out) - 1) : out[k][1] # out[k + 1][1]

\* the number of non-missing occurrences of a label
Occurrences(regime) == Len(SelectSeq(regimes, LAMBDA x : x = regime))

\* count and percentage p (a fraction) are those of a label: p is
\* count / non-missing observations * 100, or 0 when there are none
C9_Entry(regime, count, p) ==
    /\ count = Occurrences(regime)
    /\ p.den > 0
    /\ IF Len(NonMissing(regimes)) > 0
       THEN p.num * Len(NonMissing(regimes)) = count * 100 * p.den
       ELSE p.num = 0

\* C9: both summaries give each label its count of non-missing occurrences
\* and the percentage count / non-missing observations * 100 (so the three
\* sum to 100 when a label is non-missing), and 0 without a division error
\* when there is none.
C9_PercentOfNonMissing ==
    /\ "get_regime_stats" \in stage =>
          /\ \A regime \in Labels :
                C9_Entry(regime, stats[regime].count, stats[regime].percentage)
          /\ Len(NonMissing(regimes)) > 0 =>
                stats["Low"].percentage.num + stats["Medium"].percentage.num
                  + stats["High"].percentage.num = 100 * stats["Low"].percentage.den
    /\ "print_summary_statistics" \in stage =>
          /\ printed.error = "none"
          /\ \A k \in 1..3 :
                C9_Entry(printed.rows[k].regime, printed.rows[k].count,
                         printed.rows[k].percentage)

-----------------------------------------------------------------------------
(* Claims about the classifiers (SpecClassify) *)

Rank(label) == CASE label = "Low" -> 1 [] label = "Medium" -> 2 [] label = "High" -> 3

Classified == stage # {}

\* C10: after either classifier, every non-missing volatility has one of the
\* three labels, and for non-missing volatilities a <= b of the series
\* label(a) <= label(b) in the order Low < Medium < High, also when the two
\* thresholds coincide.
C10_MonotonicClassification ==
    Classified =>
        /\ Len(regimes) = Len(volatility)
        /\ \A i \in 1..Len(volatility) :
              volatility[i] # NaN => regimes[i] \in Labels
        /\ \A i, j \in 1..Len(volatility) :
              (volatility[i] # NaN /\ volatility[j] # NaN
                 /\ volatility[i] <= volatility[j])
                  => Rank(regimes[i]) <= Rank(regimes[j])

\* a classified series whose thresholds coincide and that has two labels
C10_Witness ==
    /\ Classified
    /\ Len(DropNa(volatility)) >= 2
    /\ Quantile(volatility, 33) = Quantile(volatility, 67)
    /\ \E i, j \in 1..Len(regimes) : regimes[i] = "Low" /\ regimes[j] = "High"

\* C11: after either classifier the output has the dates of the input, and a
\* date's label is missing exactly when its volatility is missing.
C11_MissingIffMissing ==
    Classified =>
        /\ Len(regimes) = Len(volatility)
        /\ \A i \in 1..Len(volatility) :
              IsNa(regimes[i]) <=> volatility[i] = NaN

\* a classified series with a missing volatility between two present ones
C11_Witness ==
    /\ Classified
    /\ \E i, j, k \in 1..Len(volatility) :
          /\ i < j /\ j < k
          /\ volatility[i] # NaN /\ volatility[j] = NaN /\ volatility[k] # NaN
          /\ ~IsNa(regimes[i]) /\ IsNa(regimes[j]) /\ ~IsNa(regimes[k])

-----------------------------------------------------------------------------
(* Further claims about load_data *)

RateOutcomes == SelectSeq(outcomes, LAMBDA o : o = "rate")

\* about to make the request of the current attempt: the sleep just made is
\* the pre-attempt sleep of this attempt, and it is the only sleep since the
\* previous request other than that request's rate-limit backoff
C16_BeforeRequest ==
    pc = "request" =>
        /\ sleeps # <<>>
        /\ sleeps[Len(sleeps)] = (IF attempt = 0 THEN 500 ELSE 3000 * (2 ^ attempt))
        /\ Len(sleeps) = (requests + 1) + Len(RateOutcomes)
        /\ attempt = requests

C16_RequestStep == requests' # requests => pc = "request" /\ requests' = requests + 1

\* C16: each provider request directly follows exactly one pre-attempt sleep,
\* of 0.5s for attempt 0 and of 3s * 2^attempt for every later attempt,
\* whatever the previous attempt's outcome was.
C16_PreAttemptSleep == [](C16_BeforeRequest) /\ [][C16_RequestStep]_vars

\* the third request about to be made, after a rate-limit and another error
C16_Witness ==
    /\ pc = "request"
    /\ attempt = 2
    /\ outcomes = <<"rate", "other">>
    /\ sleeps = <<500, 5000, 6000, 12000>>

Errors == SelectSeq(notes, LAMBDA n : n.level = "error")

C18_State ==
    /\ Len(Errors) <= 1
    /\ Len(Errors) = 1 =>
          /\ pc = "done"
          /\ result = None
          /\ notes[Len(notes)].level = "error"
          /\ attempt = max_retries - 1
          /\ LastOutcome \in {"rate", "other"}
    /\ (pc = "done" /\ (max_retries = 0 \/ LastOutcome = "empty")) =>
          /\ result = None
          /\ Len(Errors) = 0

C18_Step ==
    Len(Errors') # Len(Errors) =>
        /\ pc = "except"
        /\ attempt = max_retries - 1
        /\ pc' = "done"
        /\ result' = None

\* C18: a call emits at most one error notification, only while handling an
\* exception on the final attempt and in the step that returns None; a call
\* that ends on an empty final frame or with max_retries = 0 emits none.
C18_FailureNotificationOnce == [](C18_State) /\ [][C18_Step]_vars

C18_Witness ==
    /\ pc = "done"
    /\ max_retries = 3
    /\ outcomes = <<"other", "empty", "other">>
    /\ Len(Errors) = 1
    /\ Len(notes) = 1

\* a step in which the notifier was called and raised
NotifierRaised == notes' # notes /\ notes'[Len(notes')].raised

C14_Step ==
    NotifierRaised =>
        LET n == notes'[Len(notes')] IN
        /\ pc' # "raised"
        /\ requests' = requests
        /\ n.msg = "rate_limit_retry" =>
              /\ sleeps' = Append(sleeps, 5000 * (2 ^ attempt))
              /\ attempt' = attempt + 1
              /\ pc' = "loop"
              /\ result' = result
        /\ n.msg # "rate_limit_retry" =>
              /\ sleeps' = sleeps
              /\ pc' = "done"
              /\ result' = None

\* C14: when the notifier raises, no exception leaves load_data, and the call
\* goes on as it does when the notifier returns: after the retry advisory it
\* sleeps the rate-limit backoff and retries, after a failure notification it
\* returns None.
C14_NotifierFailureSwallowed == [](pc # "raised") /\ [][C14_Step]_vars

\* a call that retried and got its data although the advisory raised
C14_Witness ==
    /\ pc = "done"
    /\ outcomes = <<"rate", "ok">>
    /\ Len(notes) = 1
    /\ notes[1].raised
    /\ result = Series(data)
    /\ sleeps = <<500, 5000, 6000>>

-----------------------------------------------------------------------------
(* Claims about the failures of the stages *)

\* C12: on a volatility series with fewer than 2 non-missing observations
\* either classifier fails with InsufficientData.
C12_InsufficientData ==
    (Classified /\ Len(DropNa(volatility)) < 2) => failure = "InsufficientData"

VolatilityComputed == stage # {}

\* C13: for a window below 2 compute_volatility fails with InvalidInput
\* instead of returning a volatility series.
C13_InvalidWindow ==
    (VolatilityComputed /\ window < 2) => failure = "InvalidInput"

-----------------------------------------------------------------------------
(* Claims about main *)

MainEnded == mainpc \in {"end", "crashed"}

AppStages == <<"compute_returns", "compute_volatility", "classify_regimes",
               "get_regime_stats", "plot_regimes">>
ScriptStages == <<"compute_log_returns", "compute_rolling_volatility",
                  "classify_volatility_regimes", "print_summary_statistics",
                  "plot_volatility_regimes">>

\* C17: when main has ended after a fetch, the stages it called after the
\* fetch are, in order, returns, volatility, classification, summary and
\* region rendering if the fetch gave a non-empty price series, and none if
\* the fetch failed.
C17_StagesInOrder ==
    (MainEnded /\ calls # <<>>) =>
        IF prices.kind = "series"
        THEN Tail(calls) = (IF calls[1] = "load_data" THEN AppStages ELSE ScriptStages)
        ELSE Tail(calls) = <<>>

-----------------------------------------------------------------------------
(* Claims about the two scans together (SpecScans) *)

BothScanned == {"plot_regimes", "plot_volatility_regimes"} \subseteq stage

\* C19: on the same prices and regimes, plot_regimes and
\* plot_volatility_regimes add the same regions (label, start date, end
\* date) in the same order.
C19_SameRegions == BothScanned => regions = spans

\* both scans have run on a series with a missing label among the common
\* dates, a date absent from the prices, and a last label that starts on the
\* final common date
C19_Witness ==
    /\ BothScanned
    /\ Len(regions) >= 2
    /\ regions[Len(regions)][2] = regions[Len(regions)][3]
    /\ \E d \in price_dates : IsNa(LabelAt(d))
    /\ \E d \in 0..(Len(regimes) - 1) : d \notin price_dates

====
